---- MODULE Spec2Model ----
(***************************************************************************)
(* Ingestion and decision pipeline of the Solana token sniper              *)
(* (src/index.ts): the socket message handler, the stream data handler,    *)
(* the dedup slot CURRENT_MINT, the in-flight counter activeTransactions,  *)
(* the mode-selected check chain and the buy dispatcher.                   *)
(*                                                                         *)
(* Every await of the source is a suspension point: an evaluation is a     *)
(* record with a position (pc) and one action resumes it with the value    *)
(* the awaited collaborator produced.  Code between two awaits runs in     *)
(* one step, as it does on the single JavaScript event loop.               *)
(***************************************************************************)
EXTENDS Integers, Sequences, FiniteSets, Bags, TLC

VARIABLES
    config,              \* the loaded configuration, fixed for the process lifetime
    proc,                \* "starting" | "running" | "crashed" | "exited0" | "exited1" | "killed"
    conn,                \* the transport connection: its state and reconnect bookkeeping
    activeTransactions,  \* index.ts:23
    CURRENT_MINT,        \* index.ts:46
    evals,               \* the evaluations in progress, a bag of records
    last,                \* what the most recent handler or evaluation ended with
    call,                \* the last application of a pure function: its argument and result
    sounds               \* notifications started by playSound: still running, and how the last one ended

vars == <<config, proc, conn, activeTransactions, CURRENT_MINT, evals, last, call, sounds>>

(***************************************************************************)
(* Bounds of the model.                                                    *)
(***************************************************************************)
MaxEvals == 2      \* evaluations tracked at once (the stream path has no limit of its own)
MaxLimit == 2      \* largest configured concurrent_transactions
MaxBalances == 3    \* longest token-balance list of a stream update
MaxPad == 1         \* white space on either side of an identifier
MaxAttempts == 6    \* reconnect attempts counted
MaxLines == 2       \* log lines of a socket notification
MaxSounds == 2      \* notifications running at once
MaxSignatures == 2  \* signatures the provider lists for an address

(***************************************************************************)
(* Identifiers are strings: sequences of characters.                       *)
(***************************************************************************)
EmptyString == << >>
MintX == <<"M", "x">>
MintPump == <<"a", "P", "u", "m", "p">>
Mints == {MintX, MintPump}
WSOL_MINT == <<"S", "o", "l">>
BalanceMints == Mints \cup {WSOL_MINT}
PumpSuffix == <<"p", "u", "m", "p">>

LowerChar(c) ==
    CASE c = "A" -> "a"
      [] c = "B" -> "b"
      [] c = "C" -> "c"
      [] c = "P" -> "p"
      [] c = "U" -> "u"
      [] c = "M" -> "m"
      [] c = "S" -> "s"
      [] c = "X" -> "x"
      [] OTHER -> c

UpperChar(c) ==
    CASE c = "a" -> "A"
      [] c = "b" -> "B"
      [] c = "c" -> "C"
      [] c = "p" -> "P"
      [] c = "u" -> "U"
      [] c = "m" -> "M"
      [] c = "s" -> "S"
      [] c = "x" -> "X"
      [] OTHER -> c

\* the white space String.prototype.trim removes, as far as the inputs use it
WhiteSpace == {" ", "\t"}

toLowerCase(s) == [k \in 1..Len(s) |-> LowerChar(s[k])]

RECURSIVE trimStart(_)
trimStart(s) == IF s /= EmptyString /\ Head(s) \in WhiteSpace THEN trimStart(Tail(s)) ELSE s

RECURSIVE trimEnd(_)
trimEnd(s) ==
    IF s /= EmptyString /\ s[Len(s)] \in WhiteSpace THEN trimEnd(SubSeq(s, 1, Len(s) - 1)) ELSE s

\* white space removed at the start only
trimLeftOnly(s) == trimStart(s)

trim(s) == trimEnd(trimStart(s))

endsWith(s, suffix) ==
    /\ Len(s) >= Len(suffix)
    /\ SubSeq(s, Len(s) - Len(suffix) + 1, Len(s)) = suffix

RECURSIVE SeqsUpTo(_, _)
SeqsUpTo(S, n) ==
    IF n = 0 THEN {<< >>}
    ELSE LET shorter == SeqsUpTo(S, n - 1)
         IN shorter \cup {Append(s, x) : s \in {t \in shorter : Len(t) = n - 1}, x \in S}

(***************************************************************************)
(* Configuration and the module-level constants derived from it.  A flag   *)
(* that the selected mode never reads is left at false: allow_* are read   *)
(* in mode snipe only (index.ts:207-208), ignore_ends_with_pump in mode    *)
(* full only (index.ts:225).                                               *)
(***************************************************************************)
StreamModes == {"wss", "grpc"}
CheckModes == {"", "snipe", "full", "pumpdump", "other"}
Providers == {"sniperoo", "none"}

\* index.ts:25
CheckModeOf(mode) == IF mode = "" THEN "full" ELSE mode

\* index.ts:26
StreamModeOf(mode) == IF mode = "" THEN "wss" ELSE mode

Configs ==
    {c \in [stream_mode : StreamModes,
            checks_mode : CheckModes,
            simulation_mode : BOOLEAN,
            play_sound : {FALSE},
            allow_mint_authority : BOOLEAN,
            allow_freeze_authority : BOOLEAN,
            ignore_ends_with_pump : BOOLEAN,
            provider : Providers,
            concurrent_transactions : 1..MaxLimit] :
        /\ (c.allow_mint_authority \/ c.allow_freeze_authority) => c.checks_mode = "snipe"
        /\ c.ignore_ends_with_pump => CheckModeOf(c.checks_mode) = "full"}

MAX_CONCURRENT == config.concurrent_transactions
CHECK_MODE == CheckModeOf(config.checks_mode)
STREAM_MODE == StreamModeOf(config.stream_mode)
BUY_PROVIDER == config.provider
SIM_MODE == config.simulation_mode
\* index.ts:42
PLAY_SOUND == config.play_sound
BUY_AMOUNT == 1

\* index.ts:27, config.liquidity_pool: one pool enabled, one not
WSS_SUBSCRIBE_LP ==
    <<[id |-> 1, enabled |-> TRUE, instruction |-> <<"C", "r">>],
      [id |-> 2, enabled |-> FALSE, instruction |-> <<"I", "n">>]>>

EnabledPools == {k \in 1..Len(WSS_SUBSCRIBE_LP) : WSS_SUBSCRIBE_LP[k].enabled}

(***************************************************************************)
(* Evaluations.  An evaluation is in the bag from the moment its handler   *)
(* first suspends until its promise settles.  log is the ordered record of *)
(* what it asked of its collaborators and what they answered; latest marks *)
(* the evaluation whose identifier was written to CURRENT_MINT last.       *)
(***************************************************************************)
Started == [pc |-> "resolve", mint |-> EmptyString, latest |-> FALSE, log |-> << >>]

NoneYet == [kind |-> "none", mint |-> EmptyString, latest |-> FALSE, log |-> << >>]

NoCall == [fn |-> "none", arg |-> << >>, result |-> << >>]

InFlight == BagCardinality(evals)

\* past the duplicate check: the identifier was written to CURRENT_MINT
AdmittedPcs == {"authorities", "rugcheck", "quickrug", "buy"}

Contains(log, entry) == \E k \in 1..Len(log) : log[k] = entry

Note(e, entry) == [e EXCEPT !.log = Append(@, entry)]

One(e) == SetToBag({e})

\* a new admission takes the latest mark from every other evaluation
Unmark(ev) ==
    LET unmarked(e) == [e EXCEPT !.latest = FALSE]
        U == {unmarked(e) : e \in BagToSet(ev)}
    IN [u \in U |-> CopiesIn(u, ev) + CopiesIn([u EXCEPT !.latest = TRUE], ev)]

(***************************************************************************)
(* Continuations shared by the handlers.  Each is a complete next-state    *)
(* relation: ev is the bag of the other evaluations, e the evaluation as   *)
(* it stands, cur the value CURRENT_MINT has by then.                      *)
(***************************************************************************)

\* the decrement left out
FinallyForgets(n) == n

\* index.ts:131-133, the finally of the socket handler; the stream path has none
Finally(n) == IF STREAM_MODE = "wss" THEN n - 1 ELSE n

\* the async function suspends at an await
Suspend(ev, e, pc, cur) ==
    /\ evals' = ev (+) One([e EXCEPT !.pc = pc])
    /\ CURRENT_MINT' = cur
    /\ UNCHANGED <<config, proc, conn, activeTransactions, last, call, sounds>>

NoSounds == [pending |-> 0, finished |-> "none"]

\* index.ts:251 and 260 (451 and 460): a notification follows a purchase that
\* succeeded, and an acceptance in simulation mode
PlaysSound == PLAY_SOUND /\ ((BUY_PROVIDER = "sniperoo" /\ ~SIM_MODE) \/ SIM_MODE)

\* notification.ts:4-7: exec starts the command and returns
playSound == [sounds EXCEPT !.pending = @ + 1]

\* the promise settles and the process goes on (p = "running") or dies
SettleWith(ev, e, kind, cur, p) ==
    /\ evals' = ev
    /\ last' = [kind |-> kind, mint |-> e.mint, latest |-> e.latest, log |-> e.log]
    /\ CURRENT_MINT' = cur
    /\ activeTransactions' = Finally(activeTransactions)
    /\ proc' = p
    /\ IF kind = "accepted" /\ PlaysSound
       THEN sounds.pending < MaxSounds /\ sounds' = playSound
       ELSE UNCHANGED sounds
    /\ UNCHANGED <<config, conn, call>>

Settle(ev, e, kind, cur) == SettleWith(ev, e, kind, cur, proc)

\* simulation mode not consulted
ShouldBuyIgnoresSim == BUY_PROVIDER = "sniperoo"

\* index.ts:242 and 442
ShouldBuy == BUY_PROVIDER = "sniperoo" /\ ~SIM_MODE

\* index.ts:239-271 and 439-470, up to the await of buyToken
Dispatch(ev, e, cur) ==
    IF ShouldBuy
    THEN Suspend(ev, Note(Note(e, "dispatch"), "buy"), "buy", cur)
    ELSE Settle(ev, Note(e, "dispatch"), "accepted", cur)

\* the comparison made without lower-casing
FullSuffixRejectsCaseSensitive(mint) ==
    endsWith(trim(mint), PumpSuffix) /\ config.ignore_ends_with_pump

\* index.ts:225 and 425
FullSuffixRejects(mint) ==
    endsWith(toLowerCase(trim(mint)), PumpSuffix) /\ config.ignore_ends_with_pump

\* index.ts:221-231 and 421-431, up to the await of getRugCheckConfirmed
FullCheck(ev, e, cur) ==
    IF FullSuffixRejects(e.mint)
    THEN Settle(ev, Note(e, "suffix:reject"), "rejected", cur)
    ELSE Suspend(ev, Note(Note(e, "suffix:pass"), "rugcheck"), "rugcheck", cur)

\* index.ts:200-237: the socket path has no pumpdump branch
WssChecks(ev, e, cur) ==
    IF CHECK_MODE = "snipe"
    THEN Suspend(ev, Note(e, "authorities"), "authorities", cur)
    ELSE IF CHECK_MODE = "full"
    THEN FullCheck(ev, e, cur)
    ELSE Dispatch(ev, e, cur)

\* index.ts:392-437
GrpcChecks(ev, e, cur) ==
    IF CHECK_MODE = "snipe"
    THEN Suspend(ev, Note(e, "authorities"), "authorities", cur)
    ELSE IF CHECK_MODE = "pumpdump"
    THEN Suspend(ev, Note(e, "quickrug"), "quickrug", cur)
    ELSE IF CHECK_MODE = "full"
    THEN FullCheck(ev, e, cur)
    ELSE Dispatch(ev, e, cur)

\* index.ts:190 and 382
IsDuplicate(mint) == CURRENT_MINT = mint

\* a handler returns without starting or touching an evaluation
Drop(kind, mint) ==
    /\ last' = [kind |-> kind, mint |-> mint, latest |-> FALSE, log |-> << >>]
    /\ UNCHANGED <<config, proc, conn, activeTransactions, CURRENT_MINT, evals, call, sounds>>

(***************************************************************************)
(* Socket transport.                                                       *)
(***************************************************************************)
\* a log line: a string, or a value of another type (text is what a search
\* in it would find)
LogLines ==
    {[type |-> "other", text |-> <<"C", "r">>],
     [type |-> "string", text |-> <<"x", "C", "r", "y">>],
     [type |-> "string", text |-> <<"x", "I", "n">>]}

\* params.result.value.logs: absent, a string, or an array of lines
LogsValues ==
    {[isArray |-> FALSE, lines |-> << >>],
     [isArray |-> FALSE, lines |-> <<[type |-> "string", text |-> <<"x", "C", "r", "y">>]>>]}
    \cup [isArray : {TRUE}, lines : SeqsUpTo(LogLines, MaxLines)]

\* params.result.value.signature: undefined, 0, another number, "", a signature
SignatureValues ==
    {[type |-> "undefined", truthy |-> FALSE]} \cup [type : {"number", "string"}, truthy : BOOLEAN]

Unparseable ==
    [parses |-> FALSE, result |-> FALSE, error |-> FALSE,
     logs |-> [isArray |-> FALSE, lines |-> << >>],
     signature |-> [type |-> "undefined", truthy |-> FALSE]]

\* every payload of the socket: text that is no JSON, envelopes carrying
\* result or error, notifications
WsPayloads ==
    {Unparseable}
    \cup {[Unparseable EXCEPT !.parses = TRUE, !.result = r, !.error = e] :
             r \in BOOLEAN, e \in BOOLEAN}
    \cup [parses : {TRUE}, result : {FALSE}, error : {FALSE},
          logs : LogsValues, signature : SignatureValues]

\* the payloads with at most one log line
WsMessages == {msg \in WsPayloads : Len(msg.logs.lines) <= 1}

\* String.prototype.includes
Includes(s, sub) ==
    \E k \in 0..(Len(s) - Len(sub)) : SubSeq(s, k + 1, k + Len(sub)) = sub

\* index.ts:111
liquidityPoolInstructions == {WSS_SUBSCRIBE_LP[k].instruction : k \in EnabledPools}

\* index.ts:112
containsCreate(logs) ==
    \E k \in 1..Len(logs.lines) :
        /\ logs.lines[k].type = "string"
        /\ \E instruction \in liquidityPoolInstructions : Includes(logs.lines[k].text, instruction)

\* the type of the signature not looked at
WsVerdictAnySignature(msg) ==
    IF ~msg.parses THEN "handler_error"
    ELSE IF msg.result /\ ~msg.error THEN "ack"
    ELSE IF msg.error THEN "rpc_error"
    ELSE IF ~msg.logs.isArray \/ ~msg.signature.truthy THEN "invalid"
    ELSE IF ~containsCreate(msg.logs) THEN "invalid"
    ELSE "candidate"

\* index.ts:88-114: what the handler does with the payload before it looks at
\* the counter
WsVerdict(msg) ==
    IF ~msg.parses THEN "handler_error"
    ELSE IF msg.result /\ ~msg.error THEN "ack"
    ELSE IF msg.error THEN "rpc_error"
    ELSE IF ~msg.logs.isArray \/ ~msg.signature.truthy THEN "invalid"
    ELSE IF ~containsCreate(msg.logs) \/ msg.signature.type /= "string" THEN "invalid"
    ELSE "candidate"

\* the limit allowed to be exceeded by one
BackpressureAboveLimit == activeTransactions > MAX_CONCURRENT

\* index.ts:118
Backpressure == activeTransactions >= MAX_CONCURRENT

\* index.ts:87-140, the message handler, with the synchronous head of
\* processWebsocketSignature (index.ts:170-179)
WsMessage(msg) ==
    /\ proc = "running"
    /\ STREAM_MODE = "wss"
    /\ conn.state = "CONNECTED"
    /\ IF WsVerdict(msg) /= "candidate" THEN Drop(WsVerdict(msg), EmptyString)
       ELSE IF Backpressure THEN Drop("backpressure", EmptyString)
       ELSE /\ InFlight < MaxEvals
            /\ activeTransactions' = activeTransactions + 1
            /\ evals' = evals (+) One(Started)
            /\ last' = [NoneYet EXCEPT !.kind = "started"]
            /\ UNCHANGED <<config, proc, conn, CURRENT_MINT, call, sounds>>

\* index.ts:179-199: getMintFromSignature answers with an identifier or nothing
WsSignatureResolved(e, returnedMint) ==
    /\ proc = "running"
    /\ e.pc = "resolve"
    /\ LET ev == evals (-) One(e)
           r == [e EXCEPT !.mint = returnedMint]
       IN IF returnedMint = EmptyString
          THEN Settle(ev, r, "unresolved", CURRENT_MINT)
          ELSE IF IsDuplicate(returnedMint)
          THEN Settle(ev, r, "duplicate", CURRENT_MINT)
          ELSE WssChecks(Unmark(ev), [r EXCEPT !.latest = TRUE], returnedMint)

(***************************************************************************)
(* Stream transport.                                                       *)
(***************************************************************************)
RECURSIVE FirstNonWsol(_)
FirstNonWsol(tokenBalances) ==
    IF tokenBalances = << >> THEN EmptyString
    ELSE IF Head(tokenBalances) /= WSOL_MINT THEN Head(tokenBalances)
    ELSE FirstNonWsol(Tail(tokenBalances))

\* the two-balance fast path taking the first balance whatever it is
getMintFromTokenBalancesFirst(tokenBalances) ==
    IF Len(tokenBalances) = 2 THEN tokenBalances[1] ELSE FirstNonWsol(tokenBalances)

\* index.ts:350-377; EmptyString stands for null
getMintFromTokenBalances(tokenBalances) ==
    IF Len(tokenBalances) = 2
    THEN LET mint1 == tokenBalances[1]
             mint2 == tokenBalances[2]
         IN IF mint1 = WSOL_MINT THEN (IF mint2 = WSOL_MINT THEN EmptyString ELSE mint2)
            ELSE IF mint2 = WSOL_MINT THEN mint1
            ELSE mint1
    ELSE FirstNonWsol(tokenBalances)

BalanceLists == SeqsUpTo(BalanceMints, MaxBalances)

GrpcUpdates ==
    [shape : {"not_transaction", "other_filter", "no_meta", "no_create_log"}, balances : {<< >>}]
    \cup [shape : {"create_pool"}, balances : BalanceLists]

\* index.ts:378-438
processGrpcMint(returnedMint) ==
    IF IsDuplicate(returnedMint)
    THEN Drop("duplicate", returnedMint)
    ELSE /\ InFlight < MaxEvals
         /\ GrpcChecks(Unmark(evals),
                       [Started EXCEPT !.mint = returnedMint, !.latest = TRUE], returnedMint)

\* index.ts:313-346: what the data handler passes on to processGrpcMint, if anything
GrpcCandidate(data) ==
    IF data.shape /= "create_pool" THEN [verdict |-> "irrelevant", mint |-> EmptyString]
    ELSE IF Len(data.balances) = 0 THEN [verdict |-> "irrelevant", mint |-> EmptyString]
    ELSE LET tokenMint == getMintFromTokenBalances(data.balances) IN
         IF tokenMint = EmptyString THEN [verdict |-> "unresolved", mint |-> EmptyString]
         ELSE [verdict |-> "candidate", mint |-> tokenMint]

\* index.ts:312-349, the data handler
processGrpcData(data) ==
    /\ proc = "running"
    /\ STREAM_MODE = "grpc"
    /\ conn.state = "CONNECTED"
    /\ LET c == GrpcCandidate(data) IN
       IF c.verdict /= "candidate" THEN Drop(c.verdict, EmptyString)
       ELSE processGrpcMint(c.mint)

(***************************************************************************)
(* Collaborators answering.                                                *)
(***************************************************************************)
\* tokenHandler.ts:33-48
AuthorityStatuses ==
    {[hasMintAuthority |-> m, hasFreezeAuthority |-> f, isSecure |-> ~m /\ ~f] : m, f \in BOOLEAN}

AuthorityTag(status) ==
    IF status.hasMintAuthority
    THEN (IF status.hasFreezeAuthority THEN "authorities:mint+freeze" ELSE "authorities:mint")
    ELSE (IF status.hasFreezeAuthority THEN "authorities:freeze" ELSE "authorities:none")

\* the freeze-authority test left out
SnipeRejectsMintOnly(status) ==
    ~status.isSecure /\ ~config.allow_mint_authority /\ status.hasMintAuthority

\* index.ts:203-219 and 395-411
SnipeRejects(status) ==
    /\ ~status.isSecure
    /\ \/ ~config.allow_mint_authority /\ status.hasMintAuthority
       \/ ~config.allow_freeze_authority /\ status.hasFreezeAuthority

\* getTokenAuthorities returns (index.ts:202-220, 394-412)
AuthoritiesReturned(e, status) ==
    /\ proc = "running"
    /\ e.pc = "authorities"
    /\ LET ev == evals (-) One(e)
           r == Note(e, AuthorityTag(status))
       IN IF SnipeRejects(status)
          THEN Settle(ev, r, "rejected", CURRENT_MINT)
          ELSE Dispatch(ev, r, CURRENT_MINT)

\* getTokenAuthorities rethrows (tokenHandler.ts:54-57).  The socket handler
\* catches the rejection (index.ts:128-130); the stream data handler is an
\* async listener whose promise nobody holds (index.ts:296), so the rejection
\* is unhandled and, depending on the runtime, ends the process.
AuthoritiesThrew(e) ==
    /\ proc = "running"
    /\ e.pc = "authorities"
    /\ LET ev == evals (-) One(e)
           r == Note(e, "authorities:error")
       IN IF STREAM_MODE = "wss"
          THEN Settle(ev, r, "error", CURRENT_MINT)
          ELSE \E p \in {"running", "crashed"} :
                   SettleWith(ev, r, "unhandled", CURRENT_MINT, p)

\* getRugCheckConfirmed answers (index.ts:231-237, 431-437)
RugCheckReturned(e, isRugCheckPassed) ==
    /\ proc = "running"
    /\ e.pc = "rugcheck"
    /\ LET ev == evals (-) One(e) IN
       IF ~isRugCheckPassed
       THEN Settle(ev, Note(e, "rugcheck:false"), "rejected", CURRENT_MINT)
       ELSE Dispatch(ev, Note(e, "rugcheck:true"), CURRENT_MINT)

\* isQuickRugPull answers (index.ts:415-420)
QuickRugPullReturned(e, isDevCheckPassed) ==
    /\ proc = "running"
    /\ e.pc = "quickrug"
    /\ LET ev == evals (-) One(e) IN
       IF ~isDevCheckPassed
       THEN Settle(ev, Note(e, "quickrug:false"), "rejected", CURRENT_MINT)
       ELSE Dispatch(ev, Note(e, "quickrug:true"), CURRENT_MINT)

(***************************************************************************)
(* The Buyer.  script[k] is what the trading API answers to the k-th call. *)
(***************************************************************************)
MAX_RETRIES == 3

ApiOutcomes == {"ok", "retryable_error", "other_error"}

ApiScripts == [1..(MAX_RETRIES + 1) -> ApiOutcomes]

\* part_000:12
RETRY_DELAY == 200

NoApiCall == [result |-> FALSE, calls |-> 0, delays |-> << >>]

\* every error retried
RECURSIVE attemptBuyTokenRunRetriesAll(_, _, _, _)
attemptBuyTokenRunRetriesAll(tokenAddress, inputAmount, script, retryCount) ==
    IF tokenAddress = EmptyString \/ trim(tokenAddress) = EmptyString THEN NoApiCall
    ELSE IF inputAmount <= 0 THEN NoApiCall
    ELSE IF script[retryCount + 1] = "ok"
    THEN [result |-> TRUE, calls |-> 1, delays |-> << >>]
    ELSE IF retryCount < MAX_RETRIES
    THEN LET r == attemptBuyTokenRunRetriesAll(tokenAddress, inputAmount, script, retryCount + 1)
         IN [result |-> r.result, calls |-> r.calls + 1, delays |-> <<RETRY_DELAY>> \o r.delays]
    ELSE [result |-> FALSE, calls |-> 1, delays |-> << >>]

\* part_000:16-83, with the API calls made and the delays waited
RECURSIVE attemptBuyTokenRun(_, _, _, _)
attemptBuyTokenRun(tokenAddress, inputAmount, script, retryCount) ==
    IF tokenAddress = EmptyString \/ trim(tokenAddress) = EmptyString THEN NoApiCall
    ELSE IF inputAmount <= 0 THEN NoApiCall
    ELSE IF script[retryCount + 1] = "ok"
    THEN [result |-> TRUE, calls |-> 1, delays |-> << >>]
    ELSE IF script[retryCount + 1] = "retryable_error" /\ retryCount < MAX_RETRIES
    THEN LET r == attemptBuyTokenRun(tokenAddress, inputAmount, script, retryCount + 1)
         IN [result |-> r.result, calls |-> r.calls + 1, delays |-> <<RETRY_DELAY>> \o r.delays]
    ELSE [result |-> FALSE, calls |-> 1, delays |-> << >>]

\* part_000:16-83
attemptBuyToken(tokenAddress, inputAmount, script, retryCount) ==
    attemptBuyTokenRun(tokenAddress, inputAmount, script, retryCount).result

\* part_000:10-87
buyToken(tokenAddress, inputAmount, script) ==
    attemptBuyToken(tokenAddress, inputAmount, script, 0)

\* the reset left out
AfterBuyFailureKeeps(mint) == CURRENT_MINT

\* the value CURRENT_MINT takes when the Buyer reports failure (index.ts:246, 446)
AfterBuyFailure(mint) == EmptyString

\* what buyToken can answer for this identifier, over every behaviour of the API
BuyResults(tokenAddress) == {buyToken(tokenAddress, BUY_AMOUNT, script) : script \in ApiScripts}

\* buyToken answers (index.ts:244-253, 444-453)
BuyReturned(e, result) ==
    /\ proc = "running"
    /\ e.pc = "buy"
    /\ LET ev == evals (-) One(e) IN
       IF ~result
       THEN Settle(ev, Note(e, "buy:false"), "rejected", AfterBuyFailure(e.mint))
       ELSE Settle(ev, Note(e, "buy:true"), "accepted", CURRENT_MINT)

(***************************************************************************)
(* The transport connection.  The stream listener is index.ts:276-311.     *)
(* The socket is driven by WebSocketManager, whose state machine follows   *)
(* its description: connect() goes DISCONNECTED/RECONNECTING ->            *)
(* CONNECTING -> CONNECTED, resetting the attempt count, or on failure to  *)
(* RECONNECTING with a retry after min(initialDelay * 2^attempt, maxDelay) *)
(* and one more attempt counted, or to CLOSED once the attempts exceed     *)
(* maxAttempts; an error or a remote close while CONNECTED is handled the  *)
(* same way; disconnect() goes to CLOSED.                                  *)
(***************************************************************************)
ConnectionStates ==
    {"DISCONNECTED", "CONNECTING", "SUBSCRIBING", "CONNECTED", "RECONNECTING", "CLOSED"}

\* before connect() / before startGrpcListener
Disconnected ==
    [state |-> "DISCONNECTED", attempts |-> 0, delay |-> 0, started |-> {},
     subscribed |-> {}, sent |-> << >>, failed |-> FALSE, shutdown |-> FALSE]

\* index.ts:65-85, the open handler: one logsSubscribe per enabled pool
OpenHandlerSubscriptions == {WSS_SUBSCRIBE_LP[k].id : k \in EnabledPools}

\* a logsSubscribe sent for every pool of the list
RECURSIVE OpenHandlerMessagesUnfiltered(_)
OpenHandlerMessagesUnfiltered(pools) ==
    IF pools = << >> THEN << >>
    ELSE <<Head(pools).id>> \o OpenHandlerMessagesUnfiltered(Tail(pools))

\* index.ts:69-84: filter((pool) => pool.enabled).forEach(... wsManager.send ...),
\* the ids of the messages in the order sent
RECURSIVE OpenHandlerMessages(_)
OpenHandlerMessages(pools) ==
    IF pools = << >> THEN << >>
    ELSE IF Head(pools).enabled
    THEN <<Head(pools).id>> \o OpenHandlerMessages(Tail(pools))
    ELSE OpenHandlerMessages(Tail(pools))

\* index.ts:284-286: the one request written to the stream
GrpcRequests == <<"pumpswap">>

\* grpcManager.ts:23-43, the one filter of the subscribe request
GrpcSubscriptions == {"pumpswap"}

\* connected and subscribed, as the listener of the selected transport leaves it
Listening ==
    [Disconnected EXCEPT
        !.state = "CONNECTED",
        !.started = {STREAM_MODE},
        !.subscribed = IF STREAM_MODE = "wss" THEN OpenHandlerSubscriptions
                       ELSE GrpcSubscriptions,
        !.sent = IF STREAM_MODE = "wss" THEN OpenHandlerMessages(WSS_SUBSCRIBE_LP)
                 ELSE GrpcRequests]

\* the options with a finite number of retries
WsOptionsBounded ==
    [initialBackoff |-> 1000, maxBackoff |-> 30000, unbounded |-> FALSE, maxRetries |-> 3]

\* index.ts:56-62; maxRetries: Infinity
WsOptions ==
    [initialBackoff |-> 1000, maxBackoff |-> 30000, unbounded |-> TRUE, maxRetries |-> 0]

RECURSIVE Pow2(_)
Pow2(n) == IF n = 0 THEN 1 ELSE 2 * Pow2(n - 1)

Min(a, b) == IF a <= b THEN a ELSE b

\* the delay before retry number attempt
Backoff(attempt) == Min(WsOptions.initialBackoff * Pow2(attempt), WsOptions.maxBackoff)

Exhausted(attempts) == ~WsOptions.unbounded /\ attempts > WsOptions.maxRetries

\* a failed connect, or a connection lost: retry later, or give up
ScheduleReconnect ==
    IF Exhausted(conn.attempts)
    THEN conn' = [conn EXCEPT !.state = "CLOSED", !.subscribed = {}, !.sent = << >>,
                              !.failed = TRUE]
    ELSE /\ conn.attempts < MaxAttempts
         /\ conn' = [conn EXCEPT !.state = "RECONNECTING",
                                 !.delay = Backoff(conn.attempts),
                                 !.attempts = conn.attempts + 1,
                                 !.subscribed = {},
                                 !.sent = << >>,
                                 !.failed = TRUE]

Pipeline == <<config, activeTransactions, CURRENT_MINT, evals, last, call, sounds>>

\* the dispatch with the socket as the fallback of every value but grpc
StartupFallsBackToSocket ==
    /\ proc = "starting"
    /\ proc' = "running"
    /\ conn' = [conn EXCEPT !.state = "CONNECTING",
                            !.started = @ \cup {IF STREAM_MODE = "grpc" THEN "grpc" ELSE "wss"}]
    /\ UNCHANGED Pipeline

\* index.ts:472-486
Startup ==
    /\ proc = "starting"
    /\ IF STREAM_MODE \in {"grpc", "wss"}
       THEN /\ proc' = "running"
            /\ conn' = [conn EXCEPT !.state = "CONNECTING", !.started = @ \cup {STREAM_MODE}]
       ELSE /\ proc' = "exited1"
            /\ UNCHANGED conn
    /\ UNCHANGED Pipeline

\* index.ts:283 and 473-476: await gClient.subscribe() is outside the try
GrpcClientSubscribe(ok) ==
    /\ proc = "running" /\ STREAM_MODE = "grpc" /\ conn.state = "CONNECTING"
    /\ IF ok
       THEN conn' = [conn EXCEPT !.state = "SUBSCRIBING"] /\ UNCHANGED proc
       ELSE proc' = "exited1" /\ UNCHANGED conn
    /\ UNCHANGED Pipeline

\* index.ts:286-292 with grpcManager.ts:62-72: the write succeeds, or it fails
\* and the catch ends the stream
GrpcSendSubscribeRequest(ok) ==
    /\ proc = "running" /\ STREAM_MODE = "grpc" /\ conn.state = "SUBSCRIBING"
    /\ conn' = IF ok
               THEN [conn EXCEPT !.state = "CONNECTED", !.subscribed = GrpcSubscriptions,
                                 !.sent = @ \o GrpcRequests]
               ELSE [conn EXCEPT !.state = "CLOSED", !.sent = @ \o GrpcRequests,
                                 !.failed = TRUE]
    /\ UNCHANGED <<proc, Pipeline>>

\* index.ts:297-301 and 289-292: the promise rejects, the catch ends the stream
GrpcStreamError ==
    /\ proc = "running" /\ STREAM_MODE = "grpc" /\ conn.state = "CONNECTED"
    /\ conn' = [conn EXCEPT !.state = "CLOSED", !.subscribed = {}, !.failed = TRUE]
    /\ UNCHANGED <<proc, Pipeline>>

\* index.ts:302-309: end or close resolves the promise, the listener returns
GrpcStreamEnd ==
    /\ proc = "running" /\ STREAM_MODE = "grpc" /\ conn.state = "CONNECTED"
    /\ conn' = [conn EXCEPT !.state = "CLOSED", !.subscribed = {}]
    /\ UNCHANGED <<proc, Pipeline>>

\* the socket opens: attempts reset, the open handler (index.ts:65-85) subscribes
WsOpen ==
    /\ proc = "running" /\ STREAM_MODE = "wss" /\ conn.state = "CONNECTING"
    /\ conn' = [conn EXCEPT !.state = "CONNECTED", !.attempts = 0, !.failed = FALSE,
                            !.subscribed = OpenHandlerSubscriptions,
                            !.sent = OpenHandlerMessages(WSS_SUBSCRIBE_LP)]
    /\ UNCHANGED <<proc, Pipeline>>

WsConnectFailed ==
    /\ proc = "running" /\ STREAM_MODE = "wss" /\ conn.state = "CONNECTING"
    /\ ScheduleReconnect
    /\ UNCHANGED <<proc, Pipeline>>

\* a socket error, a remote close, or a failed write of a subscription
WsConnectionLost ==
    /\ proc = "running" /\ STREAM_MODE = "wss" /\ conn.state = "CONNECTED"
    /\ ScheduleReconnect
    /\ UNCHANGED <<proc, Pipeline>>

\* the retry timer fires: connect() again
WsRetry ==
    /\ proc = "running" /\ STREAM_MODE = "wss" /\ conn.state = "RECONNECTING"
    /\ conn' = [conn EXCEPT !.state = "CONNECTING"]
    /\ UNCHANGED <<proc, Pipeline>>

\* index.ts:157-168: SIGINT and SIGTERM are handled by the socket listener
\* only; without a handler the signal ends the process
Signal ==
    /\ proc = "running"
    /\ IF STREAM_MODE = "wss"
       THEN /\ conn' = [conn EXCEPT !.state = "CLOSED", !.subscribed = {}, !.shutdown = TRUE]
            /\ proc' = "exited0"
       ELSE /\ proc' = "killed"
            /\ UNCHANGED conn
    /\ UNCHANGED Pipeline

(***************************************************************************)
(* Specification.                                                          *)
(***************************************************************************)
TypeOK ==
    /\ config \in Configs
    /\ proc \in {"running", "crashed"}
    /\ conn = Listening
    /\ activeTransactions \in Int
    /\ CURRENT_MINT \in Mints \cup {EmptyString}
    /\ IsABag(evals)
    /\ \A e \in BagToSet(evals) :
          /\ e.pc \in {"resolve"} \cup AdmittedPcs
          /\ e.mint \in Mints \cup {EmptyString}

Init ==
    /\ config \in Configs
    /\ proc = "running"
    /\ conn = Listening
    /\ activeTransactions = 0
    /\ CURRENT_MINT = EmptyString
    /\ evals = EmptyBag
    /\ last = NoneYet
    /\ call = NoCall
    /\ sounds = NoSounds

Next ==
    \/ \E msg \in WsMessages : WsMessage(msg)
    \/ \E e \in BagToSet(evals), m \in Mints \cup {EmptyString} : WsSignatureResolved(e, m)
    \/ \E data \in GrpcUpdates : processGrpcData(data)
    \/ \E e \in BagToSet(evals), status \in AuthorityStatuses : AuthoritiesReturned(e, status)
    \/ \E e \in BagToSet(evals) : AuthoritiesThrew(e)
    \/ \E e \in BagToSet(evals), b \in BOOLEAN : RugCheckReturned(e, b)
    \/ \E e \in BagToSet(evals), b \in BOOLEAN : QuickRugPullReturned(e, b)
    \/ \E e \in BagToSet(evals) : \E result \in BuyResults(e.mint) : BuyReturned(e, result)

Spec == Init /\ [][Next]_vars

(***************************************************************************)
(* The pipeline with notifications switched on.  exec calls back when the  *)
(* command has ended, with an error, with output on stderr, or cleanly; a  *)
(* command that never ends never calls back.                               *)
(***************************************************************************)
SoundOutcomes == {"ok", "error", "stderr"}

\* a failed notification taking the process down
PlaySoundCallbackThrows(outcome) ==
    /\ proc = "running"
    /\ sounds.pending > 0
    /\ sounds' = [pending |-> sounds.pending - 1, finished |-> outcome]
    /\ proc' = IF outcome = "ok" THEN proc ELSE "crashed"
    /\ UNCHANGED <<config, conn, activeTransactions, CURRENT_MINT, evals, last, call>>

\* notification.ts:7-18, the callback of exec
PlaySoundCallback(outcome) ==
    /\ proc = "running"
    /\ sounds.pending > 0
    /\ sounds' = [pending |-> sounds.pending - 1, finished |-> outcome]
    /\ UNCHANGED <<config, proc, conn, activeTransactions, CURRENT_MINT, evals, last, call>>

SoundConfigs ==
    [stream_mode : StreamModes,
     checks_mode : {"snipe", "full", "pumpdump"},
     simulation_mode : BOOLEAN,
     play_sound : {TRUE},
     allow_mint_authority : {FALSE},
     allow_freeze_authority : {FALSE},
     ignore_ends_with_pump : {FALSE},
     provider : {"sniperoo"},
     concurrent_transactions : {MaxLimit}]

SoundInit ==
    /\ config \in SoundConfigs
    /\ proc = "running"
    /\ conn = Listening
    /\ activeTransactions = 0
    /\ CURRENT_MINT = EmptyString
    /\ evals = EmptyBag
    /\ last = NoneYet
    /\ call = NoCall
    /\ sounds = NoSounds

SoundNext ==
    \/ Next
    \/ \E outcome \in SoundOutcomes : PlaySoundCallback(outcome)

SoundSpec == SoundInit /\ [][SoundNext]_vars

(***************************************************************************)
(* The process from its start: the transport is selected, connects, fails  *)
(* and reconnects while the pipeline runs.                                 *)
(***************************************************************************)
ConnConfigs ==
    [stream_mode : {"", "wss", "grpc", "other"},
     checks_mode : {"snipe", "full", "pumpdump"},
     simulation_mode : {FALSE},
     play_sound : {FALSE},
     allow_mint_authority : {FALSE},
     allow_freeze_authority : {FALSE},
     ignore_ends_with_pump : {FALSE},
     provider : {"sniperoo"},
     concurrent_transactions : {1}]

ConnInit ==
    /\ config \in ConnConfigs
    /\ proc = "starting"
    /\ conn = Disconnected
    /\ activeTransactions = 0
    /\ CURRENT_MINT = EmptyString
    /\ evals = EmptyBag
    /\ last = NoneYet
    /\ call = NoCall
    /\ sounds = NoSounds

ConnNext ==
    \/ Next
    \/ \E msg \in WsPayloads \ WsMessages : WsMessage(msg)
    \/ Startup
    \/ \E ok \in BOOLEAN : GrpcClientSubscribe(ok)
    \/ \E ok \in BOOLEAN : GrpcSendSubscribeRequest(ok)
    \/ GrpcStreamError
    \/ GrpcStreamEnd
    \/ WsOpen
    \/ WsConnectFailed
    \/ WsConnectionLost
    \/ WsRetry
    \/ Signal

ConnSpec == ConnInit /\ [][ConnNext]_vars

(***************************************************************************)
(* The pure functions of the program, one application per behaviour, to    *)
(* every input of a bounded set: call records the argument and the value   *)
(* computed.                                                               *)
(***************************************************************************)
Applied(fn, arg, result) ==
    /\ call = NoCall
    /\ call' = [fn |-> fn, arg |-> arg, result |-> result]
    /\ UNCHANGED <<config, proc, conn, activeTransactions, CURRENT_MINT, evals, last, sounds>>

CallGetMintFromTokenBalances(tokenBalances) ==
    Applied("getMintFromTokenBalances", tokenBalances, getMintFromTokenBalances(tokenBalances))

CallGrpcCandidate(data) == Applied("GrpcCandidate", data, GrpcCandidate(data))

\* identifiers for the suffix check: a stem, a last word written in any mix of
\* cases, white space on either side
Stem == <<"a", "b", "c">>
LastWords == {PumpSuffix, <<"p", "u", "m", "x">>}
Pads == UNION {[1..n -> WhiteSpace] : n \in 0..MaxPad}
Spellings ==
    [word : LastWords, upper : SUBSET (1..Len(PumpSuffix)), left : Pads, right : Pads]
Spelled(d) ==
    d.left \o Stem
           \o [k \in 1..Len(d.word) |-> IF k \in d.upper THEN UpperChar(d.word[k]) ELSE d.word[k]]
           \o d.right

CallFullSuffixRejects(d) ==
    Applied("FullSuffixRejects", [spelling |-> d, mint |-> Spelled(d)], FullSuffixRejects(Spelled(d)))

\* new PublicKey(mintAddress) throws on a character outside the base-58
\* alphabet, as far as the inputs use one
PublicKeyThrows(mintAddress) ==
    \E k \in 1..Len(mintAddress) : mintAddress[k] \in {"0", " "}

Resolved(result) == [result |-> result, threw |-> FALSE]

\* the age taken from the newest signature listed
isQuickRugPullNewest(mintAddress, signatures, blockTime, currentTime) ==
    IF mintAddress = EmptyString \/ trim(mintAddress) = EmptyString THEN Resolved(FALSE)
    ELSE IF PublicKeyThrows(mintAddress) THEN Resolved(FALSE)
    ELSE IF signatures.threw THEN Resolved(FALSE)
    ELSE IF Len(signatures.list) = 0 THEN Resolved(FALSE)
    ELSE IF blockTime = "error" THEN Resolved(FALSE)
    ELSE IF blockTime = "null" THEN Resolved(FALSE)
    ELSE Resolved(currentTime - signatures.list[1] > 60)

\* tokenHandler.ts:65-93.  signatures is what getSignaturesForAddress answers:
\* it throws, or lists the block times of the signatures newest first;
\* blockTime is what getBlockTime answers for the slot of the last one listed:
\* it throws, has no time (null), or has the time
isQuickRugPull(mintAddress, signatures, blockTime, currentTime) ==
    IF mintAddress = EmptyString \/ trim(mintAddress) = EmptyString THEN Resolved(FALSE)
    ELSE IF PublicKeyThrows(mintAddress) THEN Resolved(FALSE)
    ELSE IF signatures.threw THEN Resolved(FALSE)
    ELSE IF Len(signatures.list) = 0 THEN Resolved(FALSE)
    ELSE IF blockTime = "error" THEN Resolved(FALSE)
    ELSE IF blockTime = "null" THEN Resolved(FALSE)
    ELSE Resolved(currentTime - signatures.list[Len(signatures.list)] > 60)

\* block times 61, 60 and 59 seconds before the time of the call
BlockTimes == {939, 940, 941}
CallTimes == {1000}

\* getSignaturesForAddress lists the newest signature first
SignatureLists ==
    {l \in SeqsUpTo(BlockTimes, MaxSignatures) : \A k \in 1..(Len(l) - 1) : l[k] >= l[k + 1]}

QuickRugPullInputs ==
    [mintAddress : {EmptyString, <<" ">>, <<"0">>, MintX},
     signatures : {[threw |-> TRUE, list |-> << >>]} \cup [threw : {FALSE}, list : SignatureLists],
     blockTime : {"error", "null", "time"},
     currentTime : CallTimes]

CallIsQuickRugPull(in) ==
    Applied("isQuickRugPull", in,
            isQuickRugPull(in.mintAddress, in.signatures, in.blockTime, in.currentTime))

\* part_000:10-87 over token addresses, amounts and API behaviours
BuyInputs ==
    [tokenAddress : {EmptyString, <<" ">>, MintX}, inputAmount : {0, BUY_AMOUNT}, script : ApiScripts]

CallBuyToken(in) ==
    Applied("buyToken", in, attemptBuyTokenRun(in.tokenAddress, in.inputAmount, in.script, 0))

FnNext ==
    \/ \E in \in QuickRugPullInputs : CallIsQuickRugPull(in)
    \/ \E in \in BuyInputs : CallBuyToken(in)
    \/ \E tokenBalances \in BalanceLists : CallGetMintFromTokenBalances(tokenBalances)
    \/ \E d \in Spellings : CallFullSuffixRejects(d)
    \/ \E data \in GrpcUpdates : CallGrpcCandidate(data)

FnSpec == Init /\ [][FnNext]_vars

(***************************************************************************)
(* What the properties below read.                                         *)
(***************************************************************************)
RECURSIVE SumCopies(_, _)
SumCopies(S, B) ==
    IF S = {} THEN 0
    ELSE LET x == CHOOSE y \in S : TRUE IN CopiesIn(x, B) + SumCopies(S \ {x}, B)

\* evaluations of identifier m that are past the gate and have not settled
CountOf(B, m) == SumCopies({e \in BagToSet(B) : e.pc \in AdmittedPcs /\ e.mint = m}, B)

AdmittedCount == SumCopies({e \in BagToSet(evals) : e.pc \in AdmittedPcs}, evals)

\* the logs of the evaluations in progress and of the one that settled last
AllLogs == {last.log} \cup {e.log : e \in BagToSet(evals)}

\* the admitted evaluations the state still shows: in progress, or settled last
Shown ==
    {[mint |-> e.mint, log |-> e.log, kind |-> "pending"] :
        e \in {f \in BagToSet(evals) : f.pc \in AdmittedPcs}}
    \cup (IF last.kind \in {"accepted", "rejected", "error", "unhandled"}
          THEN {[mint |-> last.mint, log |-> last.log, kind |-> last.kind]}
          ELSE {})

(***************************************************************************)
(* C1.  On the socket transport activeTransactions stays within            *)
(* 0..MAX_CONCURRENT and equals the number of evaluations started and not  *)
(* yet settled: every settlement, whatever the outcome, took exactly one   *)
(* off, and the counter is 0 when nothing is in progress.                  *)
(***************************************************************************)
C1_CounterWithinLimit ==
    STREAM_MODE = "wss" =>
        /\ activeTransactions >= 0
        /\ activeTransactions <= MAX_CONCURRENT
        /\ activeTransactions = InFlight

\* two evaluations ran on a limit of 2, the last ended with a thrown error, none is left
C1_Witness ==
    /\ STREAM_MODE = "wss"
    /\ MAX_CONCURRENT = 2
    /\ last.kind = "error"
    /\ ~last.latest
    /\ InFlight = 0
    /\ activeTransactions = 0

(***************************************************************************)
(* C2.  On either transport the number of evaluations past the gate and    *)
(* not yet settled never exceeds the configured concurrency limit.         *)
(***************************************************************************)
C2_AdmittedWithinLimit == AdmittedCount <= MAX_CONCURRENT

(***************************************************************************)
(* C3.  While the most recently admitted evaluation is in progress, a      *)
(* further event carrying its identifier is dropped: no step adds a second *)
(* evaluation of that identifier.                                          *)
(***************************************************************************)
C3_RepeatDroppedWhileInFlight ==
    [][\A e \in BagToSet(evals) :
          (e.pc \in AdmittedPcs /\ e.latest) =>
              CountOf(evals', e.mint) <= CountOf(evals, e.mint)]_vars

(***************************************************************************)
(* C4.  With a concurrency limit of 2 or more, no two evaluations of the   *)
(* same identifier are in progress at once, so the Buyer is never called   *)
(* for an identifier while another evaluation of it has not settled.       *)
(***************************************************************************)
C4_NoOverlapOnSameAsset ==
    MAX_CONCURRENT >= 2 => \A m \in Mints : CountOf(evals, m) <= 1

(***************************************************************************)
(* C5.  An evaluation whose check collaborator failed ends as a rejection: *)
(* no Buyer call, no unhandled failure, and the process keeps running.     *)
(***************************************************************************)
C5_CheckErrorIsRejection ==
    Contains(last.log, "authorities:error") =>
        /\ ~Contains(last.log, "buy")
        /\ last.kind /= "unhandled"
        /\ proc = "running"

(***************************************************************************)
(* C6.  In mode snipe an evaluation whose authority lookup answered        *)
(* reaches the dispatcher exactly when the asset has no authority or every *)
(* authority it has is allowed; otherwise it ends rejected with no Buyer   *)
(* call.                                                                   *)
(***************************************************************************)
HasMint(log) == Contains(log, "authorities:mint") \/ Contains(log, "authorities:mint+freeze")

HasFreeze(log) == Contains(log, "authorities:freeze") \/ Contains(log, "authorities:mint+freeze")

Answered(log) == HasMint(log) \/ HasFreeze(log) \/ Contains(log, "authorities:none")

C6_SnipeGate ==
    CHECK_MODE = "snipe" =>
        \A r \in Shown :
            /\ Contains(r.log, "dispatch") => Answered(r.log)
            /\ Answered(r.log) =>
                 IF \/ HasMint(r.log) /\ ~config.allow_mint_authority
                    \/ HasFreeze(r.log) /\ ~config.allow_freeze_authority
                 THEN /\ r.kind = "rejected"
                      /\ ~Contains(r.log, "dispatch")
                      /\ ~Contains(r.log, "buy")
                 ELSE Contains(r.log, "dispatch")

\* the scenario of the specification: freeze authority present and not allowed
C6_Witness ==
    /\ CHECK_MODE = "snipe"
    /\ ~config.allow_freeze_authority
    /\ last.kind = "rejected"
    /\ Contains(last.log, "authorities:freeze")
    /\ ~Contains(last.log, "buy")

(***************************************************************************)
(* C7.  In mode full an evaluation whose identifier ends with the marker   *)
(* while suffix rejection is on ends rejected at once: the rug check is    *)
(* not queried and the Buyer is not called.  Any other evaluation queries  *)
(* the rug check and reaches the dispatcher only on a true verdict.        *)
(***************************************************************************)
C7_FullGate ==
    CHECK_MODE = "full" =>
        \A r \in Shown :
            IF endsWith(toLowerCase(trim(r.mint)), PumpSuffix) /\ config.ignore_ends_with_pump
            THEN /\ r.kind = "rejected"
                 /\ r.log = <<"suffix:reject">>
            ELSE /\ Len(r.log) >= 2
                 /\ r.log[1] = "suffix:pass"
                 /\ r.log[2] = "rugcheck"
                 /\ Contains(r.log, "dispatch") => Len(r.log) >= 4 /\ r.log[3] = "rugcheck:true"
                 /\ Contains(r.log, "rugcheck:false") =>
                        r.kind = "rejected" /\ ~Contains(r.log, "dispatch")

C7_Witness ==
    /\ CHECK_MODE = "full"
    /\ config.ignore_ends_with_pump
    /\ last.kind = "rejected"
    /\ last.mint = MintPump
    /\ last.log = <<"suffix:reject">>

(***************************************************************************)
(* C8.  In mode pumpdump, on either transport, an evaluation reaches the   *)
(* dispatcher only after the quick-rug-pull heuristic reported false, and  *)
(* an evaluation for which it reported true ends rejected.                 *)
(***************************************************************************)
C8_PumpdumpGate ==
    CHECK_MODE = "pumpdump" =>
        \A r \in Shown :
            /\ Contains(r.log, "dispatch") => Contains(r.log, "quickrug:false")
            /\ Contains(r.log, "quickrug:true") =>
                   r.kind = "rejected" /\ ~Contains(r.log, "dispatch")

(***************************************************************************)
(* C9.  When the configured mode is unspecified or is none of snipe, full, *)
(* pumpdump, an evaluation reaches the dispatcher only after the full      *)
(* chain passed: the suffix check, then a true rug-check verdict.          *)
(***************************************************************************)
C9_UnrecognizedModeRunsFull ==
    config.checks_mode \notin {"snipe", "full", "pumpdump"} =>
        \A r \in Shown :
            Contains(r.log, "dispatch") =>
                /\ r.log[1] = "suffix:pass"
                /\ Contains(r.log, "rugcheck:true")

LastOf(log) == IF log = << >> THEN "" ELSE log[Len(log)]

\* a pending evaluation settled in this step; last' describes it
Settles == BagCardinality(evals') < BagCardinality(evals)

\* the evaluation that settled had passed the gate in an earlier step
WasPastGate == CopiesIn(Started, evals') = CopiesIn(Started, evals)

\* this step wrote identifier m at the gate (index.ts:195, 387)
Admits(m) ==
    \/ \E e \in BagToSet(evals') : e.latest /\ e.mint = m /\ e.pc \in AdmittedPcs
    \/ last'.latest /\ last'.mint = m /\ last'.kind \in {"accepted", "rejected"}

C11_Step ==
    /\ CURRENT_MINT' /= CURRENT_MINT =>
          \/ CURRENT_MINT' /= EmptyString /\ Admits(CURRENT_MINT')
          \/ /\ CURRENT_MINT' = EmptyString
             /\ Settles
             /\ LastOf(last'.log) = "buy:false"
             /\ last'.kind = "rejected"
    /\ (Settles /\ LastOf(last'.log) = "buy:false") =>
          (CURRENT_MINT' = EmptyString /\ last'.kind = "rejected")
    /\ (/\ Settles
        /\ \/ WasPastGate /\ LastOf(last'.log) /= "buy:false"
           \/ last'.kind \in {"unresolved", "duplicate"}) =>
          CURRENT_MINT' = CURRENT_MINT
    /\ (/\ Settles
        /\ WasPastGate
        /\ LastOf(last'.log) \in {"rugcheck:false", "quickrug:false", "authorities:mint"}
        /\ CURRENT_MINT = last'.mint) =>
          (last'.kind = "rejected" /\ CURRENT_MINT' = last'.mint)

NonWsolAt(b) == {k \in 1..Len(b) : b[k] /= WSOL_MINT}

C12_MintResolution ==
    /\ call.fn = "getMintFromTokenBalances" =>
         LET b == call.arg
             r == call.result
         IN /\ NonWsolAt(b) = {} => r = EmptyString
            /\ (Len(b) = 2 /\ NonWsolAt(b) /= {}) =>
                   (r /= WSOL_MINT /\ r \in {b[1], b[2]})
            /\ (Len(b) = 2 /\ b[2] = WSOL_MINT /\ b[1] /= WSOL_MINT) => r = b[1]
            /\ (Len(b) = 2 /\ b[1] = WSOL_MINT /\ b[2] /= WSOL_MINT) => r = b[2]
            /\ (Len(b) > 2 /\ NonWsolAt(b) /= {}) =>
                   \E k \in NonWsolAt(b) : r = b[k] /\ \A j \in NonWsolAt(b) : k <= j
            /\ b = <<MintX, WSOL_MINT>> => r = MintX
            /\ b = <<WSOL_MINT, WSOL_MINT>> => r = EmptyString
            /\ b = <<WSOL_MINT, MintX, MintPump>> => r = MintX
    /\ call.fn = "GrpcCandidate" =>
         LET d == call.arg
             c == call.result
         IN /\ c.verdict = "candidate" =>
                  /\ c.mint /= EmptyString
                  /\ d.shape = "create_pool"
                  /\ c.mint = getMintFromTokenBalances(d.balances)
            /\ (d.shape = "create_pool" /\ NonWsolAt(d.balances) = {}) =>
                  c.verdict /= "candidate"

C12_Witness ==
    /\ call.fn = "getMintFromTokenBalances"
    /\ call.arg = <<WSOL_MINT, MintX, MintPump>>
    /\ call.result = MintX

(***************************************************************************)
(* C13.  The suffix check ignores letter case and white space around the   *)
(* identifier: every spelling of an identifier (any letters of its last    *)
(* word in upper case, white space on either side) gets the verdict of the *)
(* plain spelling, "abcPUMP", " abcpump " and "abcPump" get the same one,  *)
(* and the verdict is a rejection only if ignore_ends_with_pump is on.     *)
(***************************************************************************)
Plain(d) == [word |-> d.word, upper |-> {}, left |-> << >>, right |-> << >>]

C13_SuffixCheckInsensitive ==
    call.fn = "FullSuffixRejects" =>
        LET d == call.arg.spelling IN
        /\ call.result => config.ignore_ends_with_pump
        /\ call.result = (config.ignore_ends_with_pump /\ d.word = PumpSuffix)
        /\ call.result = FullSuffixRejects(Spelled(Plain(d)))
        /\ call.arg.mint \in {<<"a", "b", "c", "P", "U", "M", "P">>,
                              <<" ", "a", "b", "c", "p", "u", "m", "p", " ">>,
                              <<"a", "b", "c", "P", "u", "m", "p">>} =>
               call.result = config.ignore_ends_with_pump

C13_Witness ==
    /\ call.fn = "FullSuffixRejects"
    /\ call.arg.mint = <<" ", "a", "b", "c", "p", "u", "m", "p", " ">>
    /\ call.result
    /\ config.ignore_ends_with_pump

(***************************************************************************)
(* C14.  After a transport-level error on either transport (a dropped      *)
(* connection, a stream error, a failed write of the subscribe request)    *)
(* a reconnect is under way: unless shutdown was requested or the attempts *)
(* are exhausted, the connection is waiting to retry or connecting again.  *)
(***************************************************************************)
C14_ErrorLeadsToReconnect ==
    (/\ proc = "running"
     /\ conn.failed
     /\ ~conn.shutdown
     /\ ~Exhausted(conn.attempts)) =>
        conn.state \in {"RECONNECTING", "CONNECTING"}

(***************************************************************************)
(* C15.  A transport selection other than grpc, wss or nothing ends the    *)
(* process with exit code 1 with no connection attempted and no event      *)
(* processed; no selection starts the socket transport alone; at most one  *)
(* transport is ever started, exactly one once a valid selection has been  *)
(* dispatched.                                                             *)
(***************************************************************************)
C15_TransportSelection ==
    /\ config.stream_mode \notin {"", "grpc", "wss"} =>
          /\ proc \in {"starting", "exited1"}
          /\ conn = Disconnected
          /\ evals = EmptyBag /\ last = NoneYet
          /\ activeTransactions = 0 /\ CURRENT_MINT = EmptyString
    /\ (config.stream_mode = "" /\ proc /= "starting") => conn.started = {"wss"}
    /\ (config.stream_mode \in {"grpc", "wss"} /\ proc /= "starting") =>
          conn.started = {config.stream_mode}
    /\ Cardinality(conn.started) <= 1
    /\ last /= NoneYet => conn.started = {STREAM_MODE}

C15_Witness == config.stream_mode = "other" /\ proc = "exited1"

(***************************************************************************)
(* C18.  The delay scheduled for retry n is min(1000 * 2^n, 30000); the    *)
(* delays of retries 0..n never decrease and never exceed 30000; the       *)
(* attempt count is 0 whenever the socket is CONNECTED; failures alone     *)
(* never close the connection, only a requested shutdown does.             *)
(***************************************************************************)
C18_Backoff ==
    STREAM_MODE = "wss" =>
        /\ conn.state = "RECONNECTING" =>
              /\ conn.attempts >= 1
              /\ conn.delay = IF conn.attempts - 1 >= 5 THEN 30000
                              ELSE 1000 * (2 ^ (conn.attempts - 1))
        /\ \A n \in 0..conn.attempts :
              /\ Backoff(n) <= Backoff(n + 1)
              /\ Backoff(n) <= 30000
              /\ Backoff(n) >= 1000
        /\ conn.state = "CONNECTED" => conn.attempts = 0
        /\ conn.state = "CLOSED" => conn.shutdown

C18_Witness ==
    /\ conn.state = "RECONNECTING"
    /\ conn.attempts = 6
    /\ conn.delay = 30000

(***************************************************************************)
(* C16.  buyToken ends with a boolean after at most 1 + 3 API calls; it    *)
(* calls again, after the fixed delay, only after the retryable error;     *)
(* it answers true at the first call that succeeds, and false at the first *)
(* other error or when the fourth call fails too.                          *)
(***************************************************************************)
C16_BuyTokenBoundedRetry ==
    call.fn = "buyToken" =>
        LET in == call.arg
            r == call.result
            n == r.calls
            valid == in.tokenAddress = MintX /\ in.inputAmount > 0
            final == {k \in 1..4 : in.script[k] /= "retryable_error"}
        IN /\ r.result \in BOOLEAN
           /\ n \in 0..(1 + 3)
           /\ \A k \in 1..(n - 1) : in.script[k] = "retryable_error"
           /\ r.delays = [k \in 1..(IF n = 0 THEN 0 ELSE n - 1) |-> 200]
           /\ r.result => (n >= 1 /\ in.script[n] = "ok")
           /\ r.result = buyToken(in.tokenAddress, in.inputAmount, in.script)
           /\ valid =>
                 /\ n >= 1
                 /\ final /= {} => (/\ n \in final
                                    /\ \A k \in final : n <= k
                                    /\ r.result = (in.script[n] = "ok"))
                 /\ final = {} => (n = 4 /\ ~r.result)
           /\ ~valid => (n = 0 /\ ~r.result)

C16_Witness ==
    /\ call.fn = "buyToken"
    /\ call.arg.tokenAddress = MintX
    /\ call.arg.script = <<"retryable_error", "retryable_error", "retryable_error", "ok">>
    /\ call.result.result
    /\ call.result.calls = 4

(***************************************************************************)
(* C17.  Both transports feed the same downstream stages: whenever one     *)
(* path admits a resolved identifier and takes its first step (a check     *)
(* asked, a rejection, a Buyer call, an acceptance, with the write of      *)
(* CURRENT_MINT), the other path's chain, given the same configuration,    *)
(* gate state and identifier, takes the same step.                         *)
(***************************************************************************)
C17_Step ==
    \A m \in Mints :
        ~IsDuplicate(m) =>
            /\ STREAM_MODE = "grpc" =>
                  LET e == [Started EXCEPT !.mint = m, !.latest = TRUE] IN
                  GrpcChecks(Unmark(evals), e, m) => WssChecks(Unmark(evals), e, m)
            /\ STREAM_MODE = "wss" =>
                  \A s \in BagToSet(evals) :
                      s.pc = "resolve" =>
                          LET e == [s EXCEPT !.mint = m, !.latest = TRUE]
                              ev == Unmark(evals (-) One(s))
                          IN WssChecks(ev, e, m) => GrpcChecks(ev, e, m)

C17_SameDownstreamStages == [][C17_Step]_vars

(***************************************************************************)
(* C19.  The gate is the three-step admission function: a candidate equal  *)
(* to CURRENT_MINT is dropped; otherwise it is dropped if the counter is   *)
(* at the limit; otherwise CURRENT_MINT is set and the counter incremented *)
(* in one step.  So the counter goes up only in a step that admits a       *)
(* candidate, no candidate is admitted with the counter at the limit, and  *)
(* a message is dropped for capacity only when admitted evaluations fill   *)
(* the limit.                                                              *)
(***************************************************************************)
C19_Step ==
    /\ activeTransactions' > activeTransactions =>
          /\ activeTransactions' = activeTransactions + 1
          /\ CURRENT_MINT' /= CURRENT_MINT
          /\ Admits(CURRENT_MINT')
    /\ (CURRENT_MINT' /= CURRENT_MINT /\ CURRENT_MINT' /= EmptyString) =>
          activeTransactions < MAX_CONCURRENT
    /\ (last'.kind = "backpressure" /\ last' /= last) =>
          AdmittedCount >= MAX_CONCURRENT

C19_GateIsAdmissionFunction == [][C19_Step]_vars

(***************************************************************************)
(* C20.  A socket message starts an evaluation only if it is no            *)
(* subscription acknowledgement and no error envelope, its logs are an     *)
(* array with a string line that contains the instruction of an enabled    *)
(* pool, and its signature is a non-empty string.  Any other message, one  *)
(* that does not parse included, changes neither activeTransactions nor    *)
(* CURRENT_MINT nor the evaluations, and leaves the listener connected and *)
(* the process running.                                                    *)
(***************************************************************************)
C20_Qualifies(msg) ==
    /\ msg.parses
    /\ ~msg.result /\ ~msg.error
    /\ msg.logs.isArray
    /\ \E k \in 1..Len(msg.logs.lines) :
          /\ msg.logs.lines[k].type = "string"
          /\ \E p \in 1..Len(WSS_SUBSCRIBE_LP) :
                /\ WSS_SUBSCRIBE_LP[p].enabled
                /\ Includes(msg.logs.lines[k].text, WSS_SUBSCRIBE_LP[p].instruction)
    /\ msg.signature.type = "string" /\ msg.signature.truthy

WsVerdicts == {"handler_error", "ack", "rpc_error", "invalid", "candidate"}

\* the payloads by what the handler makes of them, and one payload of each kind
C20_Class == [k \in WsVerdicts |-> {msg \in WsPayloads : WsVerdict(msg) = k}]
C20_Sample == [k \in WsVerdicts |-> CHOOSE msg \in C20_Class[k] : TRUE]

\* the handler takes the qualifying payloads, and no other, for candidates
C20_CandidatesQualify ==
    /\ \A k \in WsVerdicts : C20_Class[k] /= {}
    /\ \A msg \in WsPayloads : (msg \in C20_Class["candidate"]) <=> C20_Qualifies(msg)

\* the handler treats a payload by its kind alone, so one payload of each kind
\* stands for the others in a step
C20_Step ==
    /\ C20_CandidatesQualify
    /\ \A k \in WsVerdicts :
          WsMessage(C20_Sample[k]) =>
             IF k = "candidate"
             THEN last'.kind \in {"started", "backpressure"}
             ELSE /\ last'.kind = k
                  /\ UNCHANGED <<activeTransactions, CURRENT_MINT, evals, proc, conn>>
                  /\ proc' = "running" /\ conn'.state = "CONNECTED"
    /\ CopiesIn(Started, evals') > CopiesIn(Started, evals) =>
          /\ WsMessage(C20_Sample["candidate"])
          /\ activeTransactions' = activeTransactions + 1
          /\ CURRENT_MINT' = CURRENT_MINT

C20_OnlyQualifyingMessagesStart == [][C20_Step]_vars

C20_Witness ==
    /\ last.kind = "invalid"
    /\ activeTransactions = 1
    /\ CURRENT_MINT = MintX
    /\ AdmittedCount = 1

(***************************************************************************)
(* C21.  Every open event of the socket, the first and each one after a    *)
(* reconnect, sends one logsSubscribe for each enabled pool and none for a *)
(* disabled pool.  On the stream one subscribe request is written in the   *)
(* lifetime of the stream, and before any update is processed.             *)
(***************************************************************************)
TimesSent(id) == Cardinality({k \in 1..Len(conn.sent) : conn.sent[k] = id})

C21_Subscriptions ==
    /\ STREAM_MODE = "wss" =>
          /\ conn.state = "CONNECTED" =>
                \A p \in 1..Len(WSS_SUBSCRIBE_LP) :
                    TimesSent(WSS_SUBSCRIBE_LP[p].id) =
                        IF WSS_SUBSCRIBE_LP[p].enabled THEN 1 ELSE 0
          /\ conn.state \in {"DISCONNECTED", "CONNECTING", "RECONNECTING"} =>
                conn.sent = << >>
          /\ last /= NoneYet => conn.started = {"wss"}
    /\ STREAM_MODE = "grpc" =>
          /\ Len(conn.sent) <= 1
          /\ conn.state = "CONNECTED" => conn.sent = <<"pumpswap">>
          /\ conn.state \in {"DISCONNECTED", "CONNECTING", "SUBSCRIBING"} => conn.sent = << >>
          /\ (last /= NoneYet \/ evals /= EmptyBag) => conn.sent = <<"pumpswap">>

\* connected again after a retry, with an evaluation admitted since
C21_Witness ==
    /\ STREAM_MODE = "wss"
    /\ conn.state = "CONNECTED"
    /\ conn.delay = 1000
    /\ conn.sent = <<1>>
    /\ AdmittedCount = 1

(***************************************************************************)
(* C22.  An interrupt signal, on either transport, closes the connection   *)
(* and ends the process with exit code 0, whatever evaluations are in      *)
(* flight; from then on nothing is admitted and no Buyer call is started.  *)
(***************************************************************************)
C22_Step ==
    /\ (proc = "running" /\ proc' \in {"exited0", "killed"}) =>
          /\ proc' = "exited0"
          /\ conn'.state = "CLOSED"
          /\ conn'.shutdown
          /\ evals' = evals
    /\ proc \in {"exited0", "killed"} =>
          UNCHANGED <<proc, conn, activeTransactions, CURRENT_MINT, evals, last>>

C22_SignalShutsDown == [][C22_Step]_vars

(***************************************************************************)
(* C23.  The notification never affects the pipeline.  playSound is        *)
(* called in the step that settles the evaluation as accepted, which does  *)
(* not wait for it: the outcome, CURRENT_MINT and the counter are those of *)
(* an acceptance.  When the notification ends, cleanly or with an error,   *)
(* nothing of the pipeline changes; when it never ends, nothing waits.     *)
(***************************************************************************)
C23_Step ==
    /\ sounds'.pending > sounds.pending =>
          /\ sounds'.pending = sounds.pending + 1
          /\ Settles
          /\ last'.kind = "accepted"
          /\ LastOf(last'.log) \in {"buy:true", "dispatch"}
          /\ CURRENT_MINT' = IF WasPastGate THEN CURRENT_MINT ELSE last'.mint
          /\ activeTransactions' = Finally(activeTransactions)
          /\ proc' = proc
    /\ (Settles /\ last'.kind = "accepted") => sounds'.pending = sounds.pending + 1
    /\ (sounds' /= sounds /\ sounds'.pending <= sounds.pending) =>
          /\ sounds'.pending = sounds.pending - 1
          /\ UNCHANGED <<config, proc, conn, activeTransactions, CURRENT_MINT, evals, last>>

C23_NotificationIsInert == [][C23_Step]_vars

\* two evaluations accepted, neither notification has ended
C23_Witness ==
    /\ last.kind = "accepted"
    /\ sounds.pending = 2
    /\ sounds.finished = "none"
    /\ InFlight = 0

(***************************************************************************)
(* C24.  isQuickRugPull answers true exactly when more than 60 seconds     *)
(* have passed since the earliest activity observed for the identifier.    *)
(* With no activity observed, no block time available, an invalid          *)
(* identifier or a failing provider it answers false; it never throws.     *)
(***************************************************************************)
C24_QuickRugPull ==
    call.fn = "isQuickRugPull" =>
        LET in == call.arg
            times == {in.signatures.list[k] : k \in 1..Len(in.signatures.list)}
            observed ==
                /\ in.mintAddress = MintX
                /\ ~in.signatures.threw
                /\ times /= {}
                /\ in.blockTime = "time"
        IN /\ ~call.result.threw
           /\ call.result.result \in BOOLEAN
           /\ ~observed => ~call.result.result
           /\ observed =>
                 LET earliest == CHOOSE t \in times : \A u \in times : t <= u
                 IN call.result.result = (in.currentTime - earliest > 60)

C24_Witness ==
    /\ call.fn = "isQuickRugPull"
    /\ call.arg.mintAddress = MintX
    /\ call.arg.signatures.list = <<941, 939>>
    /\ call.arg.blockTime = "time"
    /\ call.result.result

(***************************************************************************)
(* C25.  On the socket transport activeTransactions is the number of       *)
(* processWebsocketSignature invocations started and not settled, those    *)
(* still resolving their signature included.  A slot is taken before the   *)
(* identifier is known, and a qualifying message is dropped for capacity   *)
(* exactly when such invocations fill the limit.                           *)
(***************************************************************************)
C25_Step ==
    STREAM_MODE = "wss" =>
        /\ activeTransactions = BagCardinality(evals)
        /\ activeTransactions' = BagCardinality(evals')
        /\ WsMessage(C20_Sample["candidate"]) =>
              IF BagCardinality(evals) >= MAX_CONCURRENT
              THEN last'.kind = "backpressure" /\ evals' = evals
              ELSE /\ last'.kind = "started"
                   /\ CopiesIn(Started, evals') = CopiesIn(Started, evals) + 1
                   /\ CURRENT_MINT' = CURRENT_MINT

C25_CounterCountsInvocations == [][C25_Step]_vars

\* a message dropped for capacity while no identifier is known yet
C25_Witness ==
    /\ STREAM_MODE = "wss"
    /\ last.kind = "backpressure"
    /\ activeTransactions = MAX_CONCURRENT
    /\ CopiesIn(Started, evals) = MAX_CONCURRENT
    /\ CURRENT_MINT = EmptyString

(***************************************************************************)
(* C26.  A Buyer failure clears CURRENT_MINT only if it still holds the    *)
(* identifier of the evaluation whose purchase failed: when the slot holds *)
(* another, more recently admitted identifier, the failure leaves it as    *)
(* it is.  Stated for the evaluations in flight within the limit.          *)
(***************************************************************************)
C26_Step ==
    (/\ Settles
     /\ LastOf(last'.log) = "buy:false"
     /\ BagCardinality(evals) <= MAX_CONCURRENT
     /\ CURRENT_MINT /= last'.mint) =>
        CURRENT_MINT' = CURRENT_MINT

C26_FailureClearsOwnEntryOnly == [][C26_Step]_vars

====
